---- MODULE Spec2Model ----
(***************************************************************************)
(* A model of blockchain(5).py: Output, Input, Transaction,                *)
(* HashableMerkleTree, Block and Blockchain.                               *)
(*                                                                         *)
(* Representation of Python values                                         *)
(*   None                 the empty tuple <<>>                             *)
(*   a 256-bit digest     <<top, pre>>: top are the leading bits of the    *)
(*                        digest (a deterministic mix of the hashed        *)
(*                        fields, below HashSpace), pre stands for the     *)
(*                        remaining bits and is the hashed byte string     *)
(*                        itself, so that equal digests mean equal         *)
(*                        preimages (SHA-256 taken as collision free)      *)
(*   a target             an integer counted in units of the weight of     *)
(*                        the leading bits, so digest < target is          *)
(*                        top < target                                     *)
(*   a dict               a function; the ordered dict self.blocks is the  *)
(*                        sequence of its values in insertion order        *)
(*   a float work value   an integer (the targets divide the genesis one)   *)
(*   a raised exception   the result "Raise" (or the exception's name)     *)
(***************************************************************************)
EXTENDS Integers, Sequences, FiniteSets, TLC

\* ---------------------------------------------------------------- bounds
MaxBlocks == 2      \* blocks accepted after the genesis block (ExtendFork: one more)
MaxTxs == 2         \* transactions per submitted block (OrderLists: three)
MaxNonce == 0       \* nonces 0..MaxNonce of submitted blocks
MaxLeaves == 5      \* leaves of the Merkle trees whose root is computed

\* ------------------------------------------------- configuration, digests
HashSpace == 16             \* values of the leading digest bits
GenesisTarget == 8          \* Blockchain(genesisTarget, ...)
MaxMintCoinsPerTx == 2      \* Blockchain(..., maxMintCoinsPerTx)
Targets == {GenesisTarget \div 2, GenesisTarget}   \* targets of submitted blocks

None == <<>>
Zero == <<0, <<>>>>         \* the integer 0 as a 32-byte value

\* hashlib.sha256(bytes).digest() read as a big-endian integer
sha256(top, pre) == <<top % HashSpace, pre>>

\* str(n) of a non-negative integer, as its sequence of decimal digits
RECURSIVE Digits(_)
Digits(n) == IF n < 10 THEN <<n>> ELSE Append(Digits(n \div 10), n % 10)

\* ------------------------------------------------------------------ Output
\* Output.__init__: a missing constraint becomes lambda x: True
Output(constraint, amount) ==
    [constraint |-> IF constraint = "None" THEN "lambda_true" ELSE constraint,
     amount |-> amount]

\* The value a constraint script returns on a satisfier ("Raise": it throws)
ConstraintCall(constraint, satisfier) ==
    CASE constraint = "lambda_true" -> "True"
      [] constraint = "sum100" ->            \* lambda x: x[0] + x[1] == 100
            (CASE satisfier = "[40,60]" -> "True"
               [] satisfier = "[1,2]" -> "False"
               [] OTHER -> "Raise")
      [] constraint = "first" ->             \* lambda x: x[0]
            (CASE satisfier = "[True]" -> "True"
               [] satisfier = "[False]" -> "False"
               [] satisfier = "[1]" -> "1"
               [] satisfier = "[0]" -> "0"
               [] OTHER -> "Raise")
      [] OTHER -> "Raise"

\* Python truthiness of a returned value
Truthy(v) == v \in {"True", "1"}

\* can_spend without its try/except: the script's exception escapes
Output_can_spend_NoTry(self, satisfier) == ConstraintCall(self.constraint, satisfier)

\* Output.can_spend: the script's value, False when it throws
Output_can_spend(self, satisfier) ==
    LET r == ConstraintCall(self.constraint, satisfier)
    IN IF r = "Raise" THEN "False" ELSE r

\* ------------------------------------------------------------------- Input
Input(txHash, txIdx, satisfier) ==
    [txHash |-> txHash, txIdx |-> txIdx, satisfier |-> satisfier]

Input_get_reference(self) == <<self.txHash, self.txIdx>>

Input_get_satisfier(self) == self.satisfier

\* ------------------------------------------------------------- Transaction
Transaction(inputs, outputs) == [inputs |-> inputs, outputs |-> outputs, data |-> <<>>]

\* sum(o.amount for o in outputs), from position i on
RECURSIVE SumAmounts(_, _)
SumAmounts(outputs, i) ==
    IF i > Len(outputs) THEN 0 ELSE outputs[i].amount + SumAmounts(outputs, i + 1)

\* the contribution of the inputs from position i on to the leading digest bits
RECURSIVE InputsMix(_, _)
InputsMix(inputs, i) ==
    IF i > Len(inputs) THEN 0
    ELSE inputs[i].txHash[1] + 11 * inputs[i].txIdx + InputsMix(inputs, i + 1)

\* Transaction.getHash: the digest of the serialised (inputs, outputs, data)
Transaction_getHash(self) ==
    sha256(7 * Len(self.inputs) + 3 * Len(self.outputs)
             + 5 * SumAmounts(self.outputs, 1) + InputsMix(self.inputs, 1),
           <<self.inputs, self.outputs, self.data>>)

\* validateMint that forgets the cap
Transaction_validateMint_NoCap(self, maxCoinsToCreate) == self.inputs = <<>>

\* validateMint with the cap excluded
Transaction_validateMint_Strict(self, maxCoinsToCreate) ==
    self.inputs = <<>> /\ SumAmounts(self.outputs, 1) < maxCoinsToCreate

\* Transaction.validateMint
Transaction_validateMint(self, maxCoinsToCreate) ==
    IF self.inputs # <<>> THEN FALSE
    ELSE SumAmounts(self.outputs, 1) <= maxCoinsToCreate

\* The loop of Transaction.validate from input i on, tinput summed so far
RECURSIVE ValidateInputs(_, _, _, _)
ValidateInputs(self, unspentOutputDict, i, tinput) ==
    IF i > Len(self.inputs)
    THEN IF tinput >= SumAmounts(self.outputs, 1) THEN "True" ELSE "False"
    ELSE LET ref == Input_get_reference(self.inputs[i])
         IN IF ref \notin DOMAIN unspentOutputDict THEN "False"
            ELSE LET o_spent == unspentOutputDict[ref]
                     ok == Output_can_spend(o_spent, Input_get_satisfier(self.inputs[i]))
                 IN IF ok = "Raise" THEN "Raise"
                    ELSE IF ~Truthy(ok) THEN "False"
                    ELSE ValidateInputs(self, unspentOutputDict, i + 1,
                                        tinput + o_spent.amount)

\* Transaction.validate: "True", "False", or "Raise" if an exception escapes
Transaction_validate(self, unspentOutputDict) ==
    ValidateInputs(self, unspentOutputDict, 1, 0)

\* ------------------------------------------------------ HashableMerkleTree
\* sha256(left.to_bytes(32) + right.to_bytes(32)) as an integer
MerkleHash(left, right) == sha256(5 * left[1] + 3 * right[1] + 1, <<left, right>>)

\* a level of odd length closed with a copy of its last element
RECURSIVE MerkleLevel_DupLeft(_, _)
MerkleLevel_DupLeft(cur_level, i) ==
    IF i > Len(cur_level) THEN <<>>
    ELSE LET left == cur_level[i]
             right == IF i + 1 <= Len(cur_level) THEN cur_level[i + 1] ELSE left
         IN <<MerkleHash(left, right)>> \o MerkleLevel_DupLeft(cur_level, i + 2)

\* One pass of the while loop: the next level, pairs taken from position i
RECURSIVE MerkleLevel(_, _)
MerkleLevel(cur_level, i) ==
    IF i > Len(cur_level) THEN <<>>
    ELSE LET left == cur_level[i]
             right == IF i + 1 <= Len(cur_level) THEN cur_level[i + 1] ELSE Zero
         IN <<MerkleHash(left, right)>> \o MerkleLevel(cur_level, i + 2)

RECURSIVE MerkleReduce(_)
MerkleReduce(cur_level) ==
    IF Len(cur_level) > 1 THEN MerkleReduce(MerkleLevel(cur_level, 1))
    ELSE cur_level[1]

\* [ob.getHash() for ob in self.leaves], from position i on
RECURSIVE LeafHashes(_, _)
LeafHashes(leaves, i) ==
    IF i > Len(leaves) THEN <<>>
    ELSE <<Transaction_getHash(leaves[i])>> \o LeafHashes(leaves, i + 1)

\* HashableMerkleTree.calcMerkleRoot over the leaves (transactions)
calcMerkleRoot(leaves) ==
    IF leaves = <<>> THEN Zero ELSE MerkleReduce(LeafHashes(leaves, 1))

\* ------------------------------------------------- the transactions of submitted blocks
Hash(tx) == Transaction_getHash(tx)

\* coinbases: two outputs, one output at the mint cap, one above it
CB1 == Transaction(<<>>, <<Output("None", 1), Output("first", 1)>>)
CB2 == Transaction(<<>>, <<Output("None", MaxMintCoinsPerTx)>>)
CB3 == Transaction(<<>>, <<Output("None", MaxMintCoinsPerTx + 1)>>)
\* spends of CB1's outputs: of the unconstrained one, of the same one twice,
\* of the constrained one with a script value of 1 and with a script that throws
SpFree == Transaction(<<Input(Hash(CB1), 0, "[]")>>, <<Output("None", 1)>>)
SpDup == Transaction(<<Input(Hash(CB1), 0, "[]"), Input(Hash(CB1), 0, "[]")>>,
                     <<Output("None", 2)>>)
SpOne == Transaction(<<Input(Hash(CB1), 1, "[1]")>>, <<Output("None", 1)>>)
SpRaise == Transaction(<<Input(Hash(CB1), 1, "[]")>>, <<Output("None", 1)>>)
\* a spend of SpFree's output, and a second spend of CB1's unconstrained output
SpNext == Transaction(<<Input(Hash(SpFree), 0, "[]")>>, <<Output("None", 1)>>)
SpAgain == Transaction(<<Input(Hash(CB1), 0, "[]")>>, <<Output("first", 1)>>)

TxUniverse == {CB1, CB2, CB3, SpFree, SpDup, SpOne, SpRaise}

\* the transactions a submitted block starts with and goes on with: Block.validate
\* treats every first transaction with inputs alike, one spend stands for them
Firsts == {CB1, CB2, CB3, SpFree}
Rest == {CB2, SpFree, SpDup, SpOne, SpRaise}

TxLists ==
    {<<>>} \cup UNION {{<<first>> \o rest : first \in Firsts, rest \in [1..n -> Rest]} :
                         n \in 0..(MaxTxs - 1)}

\* tx.getHash() and calcMerkleRoot() of the transactions and lists above, each
\* computed once
\* blocks of three transactions whose order matters: a spend of an output of
\* the same block after and before the transaction that creates it, and an
\* output of the same block spent by two of its transactions
OrderLists == {<<CB1, SpFree, SpNext>>, <<CB1, SpNext, SpFree>>,
               <<CB1, SpFree, SpAgain>>, <<CB1, SpFree, SpFree>>}

TxHash == [tx \in TxUniverse \cup {SpNext, SpAgain} |-> Transaction_getHash(tx)]

MerkleRoot == [leaves \in TxLists \cup OrderLists |-> calcMerkleRoot(leaves)]

\* ------------------------------------------------------------------- Block
EmptyDict == <<>>

\* Block() with prior link, contents, target and nonce set by the caller;
\* height -1 stands for the attribute not being set yet
Block(priorBlockHash, contents, target, nonce) ==
    [priorBlockHash |-> priorBlockHash, contents |-> contents, target |-> target,
     nonce |-> nonce, utxo_set |-> EmptyDict, height |-> -1]

\* Block.getHash: the digest of str(prior)+str(root)+str(target)+str(nonce)
Block_getHash(self) ==
    LET root == MerkleRoot[self.contents]
        priorTop == IF self.priorBlockHash = None THEN 0 ELSE self.priorBlockHash[1] + 1
    IN sha256(7 * priorTop + 3 * root[1] + 5 * self.target + 11 * self.nonce + 2,
              <<self.priorBlockHash, root>> \o Digits(self.target) \o Digits(self.nonce))

\* digest < target and digest >= target
HashBelow(hash, target) == hash[1] < target

\* Block.mine
RECURSIVE MineFrom(_, _)
MineFrom(self, tgt) ==
    IF ~HashBelow(Block_getHash(self), tgt) THEN MineFrom([self EXCEPT !.nonce = @ + 1], tgt)
    ELSE self

\* mine starting its search at nonce 0
Block_mine_FromZero(self, tgt) == MineFrom([self EXCEPT !.target = tgt, !.nonce = 0], tgt)

Block_mine(self, tgt) == MineFrom([self EXCEPT !.target = tgt], tgt)

\* The two inner loops of Block.validate for one transaction
\* del d[key]
RECURSIVE DictDel(_, _)
DictDel(d, key) ==
    IF DOMAIN d = {} THEN EmptyDict
    ELSE LET k == CHOOSE x \in DOMAIN d : TRUE
             rest == DictDel([x \in DOMAIN d \ {k} |-> d[x]], key)
         IN IF k = key THEN rest ELSE (k :> d[k]) @@ rest

\* the outputs of a transaction left out of the working dict
ApplyOutputs_Skip(n_utxo, tx, i) == n_utxo

\* for i, output in enumerate(tx.outputs): n_utxo[(tx.getHash(), i)] = output
RECURSIVE ApplyOutputs(_, _, _)
ApplyOutputs(n_utxo, tx, i) ==
    IF i > Len(tx.outputs) THEN n_utxo
    ELSE ApplyOutputs((<<TxHash[tx], i - 1>> :> tx.outputs[i]) @@ n_utxo, tx, i + 1)

\* the input loop left out: spent outputs stay in the snapshot
ApplyInputs_Keep(n_utxo, tx, i) == n_utxo

\* for i_obj in tx.getInputs(): delete its reference from n_utxo if present
RECURSIVE ApplyInputs(_, _, _)
ApplyInputs(n_utxo, tx, i) ==
    IF i > Len(tx.inputs) THEN n_utxo
    ELSE LET ref == Input_get_reference(tx.inputs[i])
         IN ApplyInputs(IF ref \in DOMAIN n_utxo THEN DictDel(n_utxo, ref) ELSE n_utxo,
                        tx, i + 1)

\* The result of Block.validate: a dict, None, or an escaping exception
ValidDict(d) == [kind |-> "dict", utxo |-> d]
ValidNone == [kind |-> "None", utxo |-> EmptyDict]
ValidRaise == [kind |-> "Raise", utxo |-> EmptyDict]

\* The transaction loop of Block.validate from index idx (1-based) on
RECURSIVE ValidateTxs(_, _, _, _)
ValidateTxs(transactions, n_utxo, idx, maxMint) ==
    IF idx > Len(transactions) THEN ValidDict(n_utxo)
    ELSE LET tx == transactions[idx]
             ok == IF idx = 1
                   THEN (IF Transaction_validateMint(tx, maxMint) THEN "True" ELSE "False")
                   ELSE Transaction_validate(tx, n_utxo)
         IN IF ok = "Raise" THEN ValidRaise
            ELSE IF ok # "True" THEN ValidNone
            ELSE ValidateTxs(transactions, ApplyInputs(ApplyOutputs(n_utxo, tx, 1), tx, 1),
                             idx + 1, maxMint)

\* dict.copy(): a new dict with the same items
DictCopy(d) == d

\* validate without the proof-of-work test
Block_validate_NoPow(self, unspentOutputs, maxMint) ==
    ValidateTxs(self.contents, DictCopy(unspentOutputs), 1, maxMint)

\* Block.validate: what it returns
Block_validate(self, unspentOutputs, maxMint) ==
    IF ~HashBelow(Block_getHash(self), self.target) THEN ValidNone
    ELSE ValidateTxs(self.contents, DictCopy(unspentOutputs), 1, maxMint)

\* validate working on the dict it was given: a valid block leaves its
\* transactions applied to it
Block_validate_arg_InPlace(self, unspentOutputs, maxMint) ==
    IF ~HashBelow(Block_getHash(self), self.target) THEN unspentOutputs
    ELSE LET r == ValidateTxs(self.contents, unspentOutputs, 1, maxMint)
         IN IF r.kind = "dict" THEN r.utxo ELSE unspentOutputs

\* Block.validate: the dict it was given, as the call leaves it.  Line 283
\* binds n_utxo to a copy and lines 297 and 302 write to n_utxo only
Block_validate_arg(self, unspentOutputs, maxMint) == unspentOutputs

\* -------------------------------------------------------------- Blockchain
\* self.blocks: entries [k |-> block hash, v |-> block] in insertion order
Keys(blocks) == {blocks[i].k : i \in 1..Len(blocks)}

Lookup(blocks, key) == blocks[CHOOSE i \in 1..Len(blocks) : blocks[i].k = key].v

\* self.blocks[key] = value
Store(blocks, key, value) ==
    IF key \in Keys(blocks)
    THEN [i \in 1..Len(blocks) |-> IF blocks[i].k = key THEN [k |-> key, v |-> value]
                                    ELSE blocks[i]]
    ELSE Append(blocks, [k |-> key, v |-> value])

\* Blockchain.add_block
Blockchain_add_block(self, block) ==
    LET stored == [block EXCEPT !.height = 0]
    IN [blocks |-> Store(self.blocks, Block_getHash(block), stored),
        height_blocks |-> (0 :> <<stored>>) @@ self.height_blocks]

\* Blockchain.__init__
Blockchain_init(genesisTarget) ==
    LET genesis_block == Block_mine(Block(None, <<>>, genesisTarget, 0), genesisTarget)
    IN Blockchain_add_block([blocks |-> <<>>, height_blocks |-> EmptyDict],
                            [genesis_block EXCEPT !.utxo_set = EmptyDict])

\* the ratio taken the wrong way round
Blockchain_getWork_Inverted(target) == target \div GenesisTarget

\* Blockchain.getWork; every target of the model divides the genesis target,
\* so the quotient is exact
Blockchain_getWork(target) == GenesisTarget \div target

\* The while loop of getCumulativeWork from block blk on
RECURSIVE SumWork(_, _)
SumWork(blocks, blk) ==
    Blockchain_getWork(blk.target)
    + (IF blk.priorBlockHash \in Keys(blocks)
       THEN SumWork(blocks, Lookup(blocks, blk.priorBlockHash)) ELSE 0)

\* Blockchain.getCumulativeWork: None, or <<work>>
Blockchain_getCumulativeWork(self, blkHash) ==
    IF blkHash \notin Keys(self.blocks) THEN None
    ELSE <<SumWork(self.blocks, Lookup(self.blocks, blkHash))>>

\* The for loop of getTip from entry i on; tip_block is None or <<block>>
RECURSIVE TipFrom(_, _, _, _)
TipFrom(self, i, m_work, tip_block) ==
    IF i > Len(self.blocks) THEN tip_block
    ELSE LET blk == self.blocks[i].v
             blk_work == Blockchain_getCumulativeWork(self, Block_getHash(blk))
         IN IF blk_work # None /\ blk_work[1] # 0 /\ blk_work[1] > m_work
            THEN TipFrom(self, i + 1, blk_work[1], <<blk>>)
            ELSE TipFrom(self, i + 1, m_work, tip_block)

\* getTip comparing each block's own work instead of its cumulative work
RECURSIVE TipFromOwnWork(_, _, _, _)
TipFromOwnWork(self, i, m_work, tip_block) ==
    IF i > Len(self.blocks) THEN tip_block
    ELSE LET blk == self.blocks[i].v
             blk_work == GenesisTarget \div blk.target
         IN IF blk_work > m_work THEN TipFromOwnWork(self, i + 1, blk_work, <<blk>>)
            ELSE TipFromOwnWork(self, i + 1, m_work, tip_block)

Blockchain_getTip_OwnWork(self) == TipFromOwnWork(self, 1, -1, None)

\* Blockchain.getTip: None or <<block>>
Blockchain_getTip(self) == TipFrom(self, 1, -1, None)

\* Blockchain.getBlocksAtHeight
Blockchain_getBlocksAtHeight(self, height) ==
    IF height \in DOMAIN self.height_blocks THEN self.height_blocks[height] ELSE <<>>

\* The outcome of extend: the two maps and the returned value (or the name
\* of the exception that escapes)
Outcome(blocks, height_blocks, ret) ==
    [blocks |-> blocks, height_blocks |-> height_blocks, ret |-> ret]

\* extend storing the block before it looks at the result of validate
Rejected_Stored(self, block) ==
    Outcome(Store(self.blocks, Block_getHash(block), block), self.height_blocks, "False")

\* extend, lines 380-381: validate returned None
Rejected(self, block) == Outcome(self.blocks, self.height_blocks, "False")

\* the height copied from the parent
ChildHeight_Same(p_block) == p_block.height

\* extend, line 387: the height of a block whose parent is p_block
ChildHeight(p_block) == p_block.height + 1

\* extend, lines 389-391: append the block to the list of its height
AppendAtHeight(hb, block) ==
    LET hb1 == IF block.height \notin DOMAIN hb THEN (block.height :> <<>>) @@ hb ELSE hb
    IN [hb1 EXCEPT ![block.height] = Append(@, block)]

\* the parent taken to be the block stored last
ParentOf_Newest(self, prior) == self.blocks[Len(self.blocks)].v

\* extend, line 376: p_block = self.blocks[block.getPriorBlockHash()]
ParentOf(self, prior) == Lookup(self.blocks, prior)

\* Blockchain.extend
Blockchain_extend(self, block) ==
    LET prior == block.priorBlockHash
        known == prior \in Keys(self.blocks)
    IN IF prior # None /\ ~known
       THEN Outcome(self.blocks, self.height_blocks, "False")
       ELSE IF ~known
       THEN Outcome(self.blocks, self.height_blocks, "KeyError")
       ELSE LET p_block == ParentOf(self, prior)
                p_set == DictCopy(p_block.utxo_set)
                n_set == Block_validate(block, p_set, MaxMintCoinsPerTx)
            IN IF n_set.kind = "Raise"
               THEN Outcome(self.blocks, self.height_blocks, "Raise")
               ELSE IF n_set.kind = "None" THEN Rejected(self, block)
               ELSE LET stored == [block EXCEPT !.utxo_set = n_set.utxo,
                                                !.height = ChildHeight(p_block)]
                    IN Outcome(Store(self.blocks, Block_getHash(block), stored),
                               AppendAtHeight(self.height_blocks, stored), "True")

\* a block hash no accepted block has
UnknownHash == Block_getHash(Block(None, <<CB3>>, GenesisTarget, 0))

\* --------------------------------------- the rules a submitted block meets
\* What the consensus rules say of one input against a snapshot
InputRule(input, utxo) ==
    LET ref == <<input.txHash, input.txIdx>>
    IN IF ref \notin DOMAIN utxo THEN "reference"
       ELSE LET v == ConstraintCall(utxo[ref].constraint, input.satisfier)
            IN CASE v = "True" -> "pass"
                 [] v = "Raise" -> "raise"
                 [] v \in {"False", "0"} -> "deny"
                 [] OTHER -> "nontrue"

Total(amounts) == LET RECURSIVE Sum(_)
                      Sum(i) == IF i > Len(amounts) THEN 0 ELSE amounts[i] + Sum(i + 1)
                  IN Sum(1)

OutputTotal(tx) == Total([j \in 1..Len(tx.outputs) |-> tx.outputs[j].amount])

\* The rule a spending transaction breaks first, or "pass"
SpendRule(tx, utxo) ==
    LET bad == {i \in 1..Len(tx.inputs) : InputRule(tx.inputs[i], utxo) # "pass"}
    IN IF bad # {}
       THEN InputRule(tx.inputs[CHOOSE i \in bad : \A j \in bad : i <= j], utxo)
       ELSE IF Total([i \in 1..Len(tx.inputs) |->
                        utxo[<<tx.inputs[i].txHash, tx.inputs[i].txIdx>>].amount])
                 < OutputTotal(tx)
            THEN "amount" ELSE "pass"

\* A snapshot with one transaction applied: outputs added, then inputs consumed
ApplyTx(utxo, tx) ==
    LET created == {<<TxHash[tx], j>> : j \in 0..(Len(tx.outputs) - 1)}
        consumed == {<<tx.inputs[i].txHash, tx.inputs[i].txIdx>> : i \in 1..Len(tx.inputs)}
    IN [key \in (DOMAIN utxo \cup created) \ consumed |->
           IF key \in created THEN tx.outputs[key[2] + 1] ELSE utxo[key]]

\* The snapshot the k-th transaction of a block meets
RECURSIVE SnapshotBefore(_, _, _)
SnapshotBefore(utxo, contents, k) ==
    IF k <= 1 THEN utxo ELSE ApplyTx(SnapshotBefore(utxo, contents, k - 1), contents[k - 1])

\* The rule the transactions break first, from the k-th on, or "ok"
RECURSIVE ContentsRule(_, _, _)
ContentsRule(utxo, contents, k) ==
    IF k > Len(contents) THEN "ok"
    ELSE LET tx == contents[k]
             rule == IF k = 1
                     THEN (IF tx.inputs # <<>> \/ OutputTotal(tx) > MaxMintCoinsPerTx
                           THEN "coinbase" ELSE "pass")
                     ELSE SpendRule(tx, utxo)
         IN IF rule # "pass" THEN rule ELSE ContentsRule(ApplyTx(utxo, tx), contents, k + 1)

\* The rule a submitted block breaks first, or "ok"
Verdict(bs, block) ==
    IF block.priorBlockHash = None THEN "null_prior"
    ELSE IF block.priorBlockHash \notin Keys(bs) THEN "orphan"
    ELSE IF Block_getHash(block)[1] >= block.target THEN "pow"
    ELSE ContentsRule(Lookup(bs, block.priorBlockHash).utxo_set, block.contents, 1)

\* ------------------------------------------------------------------- state
\* last: the last call, its result (for a query: its argument, if it has one,
\* and its result), the rule the block submitted to extend broke, whether the
\* call changed one of the maps, and whether the id of the block submitted to
\* extend was a key of self.blocks already
VARIABLES blocks, height_blocks, last

vars == <<blocks, height_blocks, last>>

chain == [blocks |-> blocks, height_blocks |-> height_blocks]

\* the entries of height_blocks beyond the genesis block
RECURSIVE AcceptedFrom(_, _)
AcceptedFrom(hb, h) == IF h \notin DOMAIN hb THEN 0 ELSE Len(hb[h]) + AcceptedFrom(hb, h + 1)

Accepted(hb) == AcceptedFrom(hb, 1)

Init ==
    LET c == Blockchain_init(GenesisTarget)
    IN /\ blocks = c.blocks
       /\ height_blocks = c.height_blocks
       /\ last = [op |-> "init", ret |-> "None", rule |-> "ok", changed |-> TRUE, dup |-> FALSE]

\* A call that changed neither map leaves the chain as the state before it had
\* it, and the calls that can follow it are the calls explored from that state:
\* the search goes on from the states whose last call changed a map (or built
\* the chain), while fewer than MaxBlocks blocks have been accepted.
Open == last.changed /\ Accepted(height_blocks) < MaxBlocks

\* chain.extend(block), for a block the caller built
Extend(block) ==
    \E r \in {Blockchain_extend(chain, block)} :
        /\ blocks' = r.blocks
        /\ height_blocks' = r.height_blocks
        /\ last' = [op |-> "extend", ret |-> r.ret, rule |-> Verdict(blocks, block),
                    changed |-> (r.blocks # blocks \/ r.height_blocks # height_blocks),
                    dup |-> Block_getHash(block) \in Keys(blocks)]

\* extend with a block on an accepted block: any list, target and nonce
ExtendKnown ==
    /\ Open
    /\ \E prior \in Keys(blocks), contents \in TxLists,
          target \in Targets, nonce \in 0..MaxNonce :
           \E block \in {Block(prior, contents, target, nonce)} : Extend(block)

\* extend with a block whose prior link is null or unknown: extend is done
\* with it before it looks at the rest of the block
ExtendStray ==
    /\ Open
    /\ \E prior \in {None, UnknownHash}, contents \in {<<>>, <<CB1>>} :
           \E block \in {Block(prior, contents, GenesisTarget, 0)} : Extend(block)

\* chain.getTip()
GetTip ==
    /\ Open
    /\ last' = [op |-> "getTip", ret |-> Blockchain_getTip(chain), rule |-> "ok",
                changed |-> FALSE, dup |-> FALSE]
    /\ UNCHANGED <<blocks, height_blocks>>

\* chain.getCumulativeWork(blkHash)
GetCumulativeWork(blkHash) ==
    /\ Open
    /\ last' = [op |-> "getCumulativeWork",
                ret |-> <<blkHash, Blockchain_getCumulativeWork(chain, blkHash)>>,
                rule |-> "ok", changed |-> FALSE, dup |-> FALSE]
    /\ UNCHANGED <<blocks, height_blocks>>

\* chain.getBlocksAtHeight(height)
GetBlocksAtHeight(height) ==
    /\ Open
    /\ last' = [op |-> "getBlocksAtHeight",
                ret |-> <<height, Blockchain_getBlocksAtHeight(chain, height)>>,
                rule |-> "ok", changed |-> FALSE, dup |-> FALSE]
    /\ UNCHANGED <<blocks, height_blocks>>

\* The calls below do not read the chain: they are made on the chain as built.
\* t0 of Test(): one output of 100
T0 == Transaction(<<>>, <<Output("lambda_true", 100)>>)

MintCaps == {0, 1, 2, 3, 50, 100, 101}

\* tx.validateMint(maxCoinsToCreate), for a transaction the caller built
ValidateMint(tx, maxCoinsToCreate) ==
    /\ last.op = "init"
    /\ last' = [op |-> "validateMint",
                ret |-> <<tx, maxCoinsToCreate,
                          Transaction_validateMint(tx, maxCoinsToCreate)>>,
                rule |-> "ok", changed |-> FALSE, dup |-> FALSE]
    /\ UNCHANGED <<blocks, height_blocks>>

\* the targets mine is called with
MineTargets == {1, GenesisTarget \div 2, GenesisTarget}

\* block.mine(tgt), for a block the caller built
Mine(block, tgt) ==
    /\ last.op = "init"
    /\ last' = [op |-> "mine", ret |-> <<block, tgt, Block_mine(block, tgt)>>,
                rule |-> "ok", changed |-> FALSE, dup |-> FALSE]
    /\ UNCHANGED <<blocks, height_blocks>>

\* the leaves of the trees whose root is computed
LeafTxs == {CB1, CB2}
LeafLists == UNION {[1..n -> LeafTxs] : n \in 0..MaxLeaves}

\* HashableMerkleTree(leaves).calcMerkleRoot()
CalcMerkleRoot(leaves) ==
    /\ last.op = "init"
    /\ last' = [op |-> "calcMerkleRoot", ret |-> <<leaves, calcMerkleRoot(leaves)>>,
                rule |-> "ok", changed |-> FALSE, dup |-> FALSE]
    /\ UNCHANGED <<blocks, height_blocks>>

\* a block of three transactions, mined at the genesis target, is submitted
\* on the genesis block
ExtendOrdered ==
    /\ Open
    /\ \E contents \in OrderLists :
          \E block \in {Block_mine(Block(blocks[1].k, contents, None, 0), GenesisTarget)} :
              Extend(block)

\* the transactions of the blocks submitted on every accepted block
ForkLists == {<<CB2>>, <<CB2, SpFree>>, <<CB1, SpFree>>}

\* a block mined at target tgt that holds the transactions of contents, on prior
Mined(prior, contents, tgt) == Block_mine(Block(prior, contents, None, 0), tgt)

\* once MaxBlocks blocks are accepted, one more block is submitted on a block
\* that holds CB1 alone: a spend of CB1's unconstrained output
ExtendFork ==
    /\ last.changed
    /\ Accepted(height_blocks) = MaxBlocks
    /\ \E prior \in {k \in Keys(blocks) : Lookup(blocks, k).contents = <<CB1>>}, tgt \in {GenesisTarget} :
          \E block \in {Mined(prior, <<CB2, SpFree>>, tgt)} : Extend(block)

\* the output dicts validate is called with: empty, and holding CB1's outputs
Snapshots == {EmptyDict, ApplyOutputs(EmptyDict, CB1, 1)}

\* block.validate(unspentOutputs, maxMint), for a block and a dict the caller built
Validate(block, unspentOutputs) ==
    /\ last.op = "init"
    /\ last' = [op |-> "validate",
                ret |-> <<block, unspentOutputs,
                          Block_validate_arg(block, unspentOutputs, MaxMintCoinsPerTx),
                          Block_validate(block, unspentOutputs, MaxMintCoinsPerTx)>>,
                rule |-> "ok", changed |-> FALSE, dup |-> FALSE]
    /\ UNCHANGED <<blocks, height_blocks>>

Next ==
    \/ ExtendKnown
    \/ ExtendStray
    \/ ExtendOrdered
    \/ ExtendFork
    \/ GetTip
    \/ \E blkHash \in Keys(blocks) \cup {None, UnknownHash} : GetCumulativeWork(blkHash)
    \/ \E height \in 0..(MaxBlocks + 1) : GetBlocksAtHeight(height)
    \/ \E tx \in TxUniverse \cup {T0}, cap \in MintCaps : ValidateMint(tx, cap)
    \/ \E prior \in Keys(blocks) \cup {None}, contents \in {c \in TxLists : Len(c) <= 1},
          nonce \in 0..(MaxNonce + 1), tgt \in MineTargets :
           Mine(Block(prior, contents, GenesisTarget, nonce), tgt)
    \/ \E prior \in Keys(blocks), contents \in TxLists, target \in Targets,
          nonce \in 0..MaxNonce, unspentOutputs \in Snapshots :
           Validate(Block(prior, contents, target, nonce), unspentOutputs)
    \/ \E prior \in Keys(blocks), contents \in OrderLists, unspentOutputs \in Snapshots :
           Validate(Block_mine(Block(prior, contents, None, 0), GenesisTarget), unspentOutputs)
    \/ \E leaves \in LeafLists : CalcMerkleRoot(leaves)

Spec == Init /\ [][Next]_vars

\* ------------------------------------------------------------------ claims
Genesis == blocks[1].v

Parent(b) == Lookup(blocks, b.priorBlockHash)

Satisfiers == {"[]", "[1]", "[True]", "[40,60]"}

\* the block reached from b by n parent links
RECURSIVE Walk(_, _)
Walk(b, n) == IF n = 0 THEN b ELSE Walk(Parent(b), n - 1)

\* the sum of genesis_target / target along the path from b to the genesis block
RECURSIVE PathWork(_)
PathWork(b) ==
    IF b.priorBlockHash = None THEN GenesisTarget \div b.target
    ELSE PathWork(Parent(b)) + GenesisTarget \div b.target

\* the total amount a snapshot holds
RECURSIVE Held(_)
Held(utxo) ==
    IF DOMAIN utxo = {} THEN 0
    ELSE LET key == CHOOSE x \in DOMAIN utxo : TRUE
         IN utxo[key].amount + Held([x \in DOMAIN utxo \ {key} |-> utxo[x]])

\* C1: extend never raises: every call returns true or false, whatever the
\* prior link, the target and the transactions of the submitted block.
C1_ExtendNeverRaises ==
    last.op = "extend" => last.ret \in {"True", "False"}

\* C2: a call of extend that returns false leaves by_id and by_height (and
\* with them the height and snapshot of every accepted block) as they were,
\* and does not store the rejected block.
C2_RejectedExtendChangesNothing ==
    [][(last'.op = "extend" /\ last'.ret = "False")
          => (blocks' = blocks /\ height_blocks' = height_blocks)]_vars

\* a block that fails validation (a spend of an unknown output) was
\* rejected by a chain that already holds an accepted block
C2_Witness ==
    /\ last.op = "extend" /\ last.ret = "False" /\ last.rule = "reference"
    /\ Len(blocks) > 1

\* C3: tip() is a block of by_id whose cumulative work is at least that of
\* every block of by_id; with A (target T) and B (target T/2) both on the
\* genesis block and nothing else, tip() is B, of work 3 against 2.
C3_TipMaximality ==
    LET t == Blockchain_getTip(chain)
    IN /\ t # None
       /\ \E i \in 1..Len(blocks) : blocks[i].v = t[1]
       /\ \A i \in 1..Len(blocks) : PathWork(t[1]) >= PathWork(blocks[i].v)
       /\ \A a, b \in 2..Len(blocks) :
             (/\ Len(blocks) = 3
              /\ blocks[a].v.priorBlockHash = blocks[1].k
              /\ blocks[b].v.priorBlockHash = blocks[1].k
              /\ blocks[a].v.target = GenesisTarget
              /\ 2 * blocks[b].v.target = GenesisTarget)
             => (t[1] = blocks[b].v /\ PathWork(blocks[b].v) = 3
                 /\ PathWork(blocks[a].v) = 2)

\* A of target T was accepted on the genesis block before B of target T/2
C3_Witness ==
    /\ Len(blocks) = 3
    /\ blocks[2].v.priorBlockHash = blocks[1].k /\ blocks[2].v.target = GenesisTarget
    /\ blocks[3].v.priorBlockHash = blocks[1].k /\ 2 * blocks[3].v.target = GenesisTarget
    /\ Blockchain_getTip(chain) = <<blocks[3].v>>

C5_ChainInvariant ==
    /\ Genesis.priorBlockHash = None /\ Genesis.height = 0
    /\ \A i \in 2..Len(blocks) :
          LET b == blocks[i].v
          IN /\ b.priorBlockHash \in Keys(blocks)
             /\ b.height = Parent(b).height + 1
             /\ b.height >= 1
             /\ Walk(b, b.height) = Genesis
             /\ \A n \in 0..(b.height - 1) : Walk(b, n) # Genesis

\* a block two links above the genesis block and a fork at the genesis block
C5_Witness ==
    \/ \E i \in 1..Len(blocks) : blocks[i].v.height = 2
    \/ \E i, j \in 2..Len(blocks) :
          i # j /\ blocks[i].v.height = 1 /\ blocks[j].v.height = 1

\* C6: the snapshot of an accepted block is its parent's snapshot with the
\* block's transactions applied in order (outputs inserted, then the inputs'
\* keys removed); the snapshot of the genesis block is empty.
C6_SnapshotConsistency ==
    /\ Genesis.utxo_set = EmptyDict
    /\ \A i \in 2..Len(blocks) :
          LET b == blocks[i].v
          IN b.utxo_set = SnapshotBefore(Parent(b).utxo_set, b.contents,
                                         Len(b.contents) + 1)

\* a block with a spend was accepted on a parent whose snapshot is not empty
C6_Witness ==
    \E i \in 2..Len(blocks) :
        /\ Len(blocks[i].v.contents) = 2
        /\ blocks[i].v.contents[2].inputs # <<>>
        /\ DOMAIN Parent(blocks[i].v).utxo_set # {}
        /\ blocks[i].v.utxo_set # Parent(blocks[i].v).utxo_set

\* C7: an accepted block never holds more than its parent's snapshot plus
\* the mint cap, also when a spend names the same output twice.
C7_NoCoinCreation ==
    \A i \in 2..Len(blocks) :
        Held(blocks[i].v.utxo_set)
            <= Held(Parent(blocks[i].v).utxo_set) + MaxMintCoinsPerTx

\* C8: validate_spend is false whenever the script of a referenced output
\* returns anything but the boolean true for the input's satisfier, and a
\* block with such a spend is not accepted.
C8_OnlyLiteralTrue ==
    /\ \A i \in 1..Len(blocks), tx \in TxUniverse :
          (\E j \in 1..Len(tx.inputs) :
              InputRule(tx.inputs[j], blocks[i].v.utxo_set) \in {"nontrue", "deny", "raise"})
          => Transaction_validate(tx, blocks[i].v.utxo_set) = "False"
    /\ (last.op = "extend" /\ last.rule = "nontrue") => last.ret = "False"

\* C9: a script that raises makes validate_spend return false, nothing
\* escapes, and extend rejects the block with false and no change; an output
\* built without a script can be spent with any satisfier.
C9_PredicateSafety ==
    /\ \A i \in 1..Len(blocks), tx \in TxUniverse :
          (\E j \in 1..Len(tx.inputs) :
              InputRule(tx.inputs[j], blocks[i].v.utxo_set) = "raise")
          => Transaction_validate(tx, blocks[i].v.utxo_set) = "False"
    /\ (last.op = "extend" /\ last.rule = "raise")
          => (last.ret = "False" /\ ~last.changed)
    /\ \A sat \in Satisfiers : Output_can_spend(Output("None", 1), sat) = "True"
    /\ \A i \in 1..Len(blocks), tx \in TxUniverse :
          (/\ tx.inputs # <<>>
           /\ \A j \in 1..Len(tx.inputs) :
                 InputRule(tx.inputs[j], blocks[i].v.utxo_set) = "pass"
           /\ OutputTotal(tx) <= 1)
          => Transaction_validate(tx, blocks[i].v.utxo_set) = "True"

\* a block whose spend meets a raising script was submitted and rejected,
\* and the chain holds the output whose script raises
C9_Witness ==
    /\ last.op = "extend" /\ last.rule = "raise" /\ last.ret = "False"
    /\ \E i \in 1..Len(blocks) :
          InputRule(SpRaise.inputs[1], blocks[i].v.utxo_set) = "raise"

\* C10: an accepted block with transactions starts with a coinbase (no
\* inputs, outputs within the mint cap), each later transaction passed
\* validate against the parent snapshot adjusted by the earlier ones, and a
\* block whose first transaction breaks the coinbase rule is not accepted.
C10_CoinbaseRule ==
    /\ \A i \in 1..Len(blocks) :
          LET b == blocks[i].v
          IN b.contents # <<>> =>
                /\ b.contents[1].inputs = <<>>
                /\ OutputTotal(b.contents[1]) <= MaxMintCoinsPerTx
                /\ \A k \in 2..Len(b.contents) :
                      Transaction_validate(b.contents[k],
                          SnapshotBefore(Parent(b).utxo_set, b.contents, k)) = "True"
    /\ (last.op = "extend" /\ last.rule = "coinbase") => last.ret = "False"

\* a block of a coinbase and a spend is in the chain, and a block breaking
\* the coinbase rule has just been rejected
C10_Witness ==
    /\ last.op = "extend" /\ last.rule = "coinbase" /\ last.ret = "False"
    /\ \E i \in 2..Len(blocks) : Len(blocks[i].v.contents) = 2

C12_ProofOfWork ==
    /\ \A i \in 1..Len(blocks) :
          /\ blocks[i].k = Block_getHash(blocks[i].v)
          /\ blocks[i].k[1] < blocks[i].v.target
    /\ (last.op = "extend" /\ last.rule = "pow") => (last.ret = "False" /\ ~last.changed)

\* a block whose id is not below its target was rejected by a chain that
\* holds a block accepted on the genesis block
C12_Witness ==
    /\ last.op = "extend" /\ last.rule = "pow" /\ last.ret = "False"
    /\ \E i \in 2..Len(blocks) : blocks[i].v.height = 1

\* C13: when mine(t) returns, the block's target is t and its id is below t;
\* the nonce is the smallest one from the starting nonce on whose id is below
\* t (the starting nonce itself if it does); prior link, transactions and the
\* other fields are untouched.
C13_MiningGuarantee ==
    last.op = "mine" =>
        LET b == last.ret[1]
            t == last.ret[2]
            m == last.ret[3]
        IN /\ m.target = t
           /\ Block_getHash(m)[1] < t
           /\ m.nonce >= b.nonce
           /\ \A n \in b.nonce..(m.nonce - 1) :
                 Block_getHash([b EXCEPT !.target = t, !.nonce = n])[1] >= t
           /\ Block_getHash([b EXCEPT !.target = t])[1] < t => m.nonce = b.nonce
           /\ m = [b EXCEPT !.target = t, !.nonce = m.nonce]

\* mine went through at least two nonces from a starting nonce above 0
C13_Witness ==
    /\ last.op = "mine"
    /\ last.ret[1].nonce > 0
    /\ last.ret[3].nonce >= last.ret[1].nonce + 2
    /\ last.ret[3].target # last.ret[1].target

\* C14: submitting an accepted block a second time leaves by_id and by_height
\* as they were: the block is not listed a second time at its height, and
\* heights and snapshots are unchanged.
C14_ExtendIdempotent ==
    (last.op = "extend" /\ last.dup) => ~last.changed

LevelAbove(level) ==
    [k \in 1..((Len(level) + 1) \div 2) |->
        MerkleHash(level[2 * k - 1], IF 2 * k <= Len(level) THEN level[2 * k] ELSE Zero)]

RECURSIVE RootOf(_)
RootOf(level) == IF Len(level) = 1 THEN level[1] ELSE RootOf(LevelAbove(level))

\* C16: the Merkle root of no leaves is 0; of one leaf, the leaf's hash
\* itself; of more, what is left when each level is replaced by the H of its
\* pairs, a missing right element being 0 and not a copy of the left one; a
\* second computation over the same leaves gives the same root.
C16_MerkleRootShape ==
    last.op = "calcMerkleRoot" =>
        LET leaves == last.ret[1]
            root == last.ret[2]
            hashes == [i \in 1..Len(leaves) |-> Hash(leaves[i])]
        IN /\ leaves = <<>> => root = Zero
           /\ Len(leaves) = 1 => root = hashes[1]
           /\ Len(leaves) >= 1 => root = RootOf(hashes)
           /\ Len(leaves) = 3 =>
                 /\ root = MerkleHash(MerkleHash(hashes[1], hashes[2]),
                                      MerkleHash(hashes[3], Zero))
                 /\ root # MerkleHash(MerkleHash(hashes[1], hashes[2]),
                                      MerkleHash(hashes[3], hashes[3]))
           /\ root = calcMerkleRoot(leaves)

\* a root over five leaves: the first and the second level are of odd length
C16_Witness ==
    /\ last.op = "calcMerkleRoot"
    /\ Len(last.ret[1]) = 5
    /\ last.ret[1][1] # last.ret[1][5]

\* the output references of the inputs of a transaction
Refs(tx) == {<<tx.inputs[i].txHash, tx.inputs[i].txIdx>> : i \in 1..Len(tx.inputs)}

\* C17: validate accepts a block whose transactions each pass against the
\* given outputs adjusted by the transactions before them in the block, so a
\* transaction may spend an output of an earlier one; it accepts no block in
\* which an input of a transaction after the first refers to an output that
\* the transactions before it have not created or have consumed; extend
\* rejects a block whose first broken rule is such a reference.
C17_IntraBlockOrdering ==
    /\ last.op = "validate" =>
          LET b == last.ret[1]
              u == last.ret[2]
              r == last.ret[4]
          IN /\ (/\ Block_getHash(b)[1] < b.target
                 /\ ContentsRule(u, b.contents, 1) = "ok") => r.kind = "dict"
             /\ r.kind = "dict" =>
                   \A k \in 2..Len(b.contents) :
                       Refs(b.contents[k]) \subseteq DOMAIN SnapshotBefore(u, b.contents, k)
    /\ (last.op = "extend" /\ last.rule = "reference") =>
          (last.ret = "False" /\ ~last.changed)

\* extend accepted a block whose second transaction spends an output of its
\* first and whose third spends the output of its second
C17_Witness ==
    /\ last.op = "extend" /\ last.ret = "True"
    /\ \E i \in 2..Len(blocks) :
          /\ blocks[i].v.contents = <<CB1, SpFree, SpNext>>
          /\ DOMAIN blocks[i].v.utxo_set = {<<Hash(CB1), 1>>, <<Hash(SpNext), 0>>}
          /\ DOMAIN Parent(blocks[i].v).utxo_set = {}

\* validate met a mined block in which a spend comes before the transaction
\* that creates the output it refers to
C17_SpendBeforeCreate ==
    /\ last.op = "validate"
    /\ last.ret[1].contents = <<CB1, SpNext, SpFree>>
    /\ last.ret[4].kind = "None"

\* validate met a mined block in which two transactions spend the same output
C17_SpendTwice ==
    /\ last.op = "validate"
    /\ last.ret[1].contents = <<CB1, SpFree, SpAgain>>
    /\ last.ret[4].kind = "None"

\* the blocks of by_id of height h, in the order in which by_id took them
AtHeight(h) ==
    LET RECURSIVE From(_)
        From(i) == IF i > Len(blocks) THEN <<>>
                   ELSE (IF blocks[i].v.height = h THEN <<blocks[i].v>> ELSE <<>>)
                        \o From(i + 1)
    IN From(1)

\* C18: blocks_at_height(h) lists the blocks of by_id of height h, each once
\* and in the order of acceptance; blocks_at_height(0) is the genesis block
\* alone; a height without an accepted block gives the empty list.
C18_HeightIndexAgrees ==
    /\ Blockchain_getBlocksAtHeight(chain, 0) = <<Genesis>>
    /\ \A h \in 0..(MaxBlocks + 1) :
          Blockchain_getBlocksAtHeight(chain, h) = AtHeight(h)

\* the outputs left unspent by the blocks on the path from the genesis block to b
RECURSIVE Replay(_)
Replay(b) ==
    IF b.priorBlockHash = None THEN EmptyDict
    ELSE SnapshotBefore(Replay(Parent(b)), b.contents, Len(b.contents) + 1)

\* C19: extend accepts a block that breaks no rule and rejects one that
\* spends an output its parent's snapshot does not hold, whatever the parent
\* and whatever the other branches hold; on every accepted block, tip or
\* not, a mined block is accepted exactly if its transactions pass against
\* the outputs left unspent on the path from the genesis block to that parent.
C19_ForksIndependent ==
    /\ (last.op = "extend" /\ last.rule = "ok") => last.ret = "True"
    /\ (last.op = "extend" /\ last.rule = "reference") => last.ret = "False"
    /\ \A i \in 1..Len(blocks) :
          \E left \in {Replay(blocks[i].v)} :
              \A contents \in ForkLists :
                  \E block \in {Mined(blocks[i].k, contents, GenesisTarget)} :
                      (Blockchain_extend(chain, block).ret = "True")
                          <=> (ContentsRule(left, contents, 1) = "ok")

\* two accepted blocks on the same parent each spend the output that the
\* parent created
C19_Witness ==
    /\ last.op = "extend" /\ last.ret = "True"
    /\ \E x, y \in 2..Len(blocks) :
          /\ x # y
          /\ blocks[x].v.priorBlockHash = blocks[y].v.priorBlockHash
          /\ <<Hash(CB1), 0>> \in DOMAIN Parent(blocks[x].v).utxo_set
          /\ Len(blocks[x].v.contents) = 2 /\ Len(blocks[y].v.contents) = 2
          /\ <<Hash(CB1), 0>> \in Refs(blocks[x].v.contents[2])
          /\ <<Hash(CB1), 0>> \in Refs(blocks[y].v.contents[2])

\* a spend of an output that another branch created, and the branch of the
\* submitted block did not, was rejected
C19_OtherBranchOutput ==
    /\ last.op = "extend" /\ last.rule = "reference" /\ last.ret = "False"
    /\ \E i \in 2..Len(blocks) : <<Hash(CB1), 0>> \in DOMAIN blocks[i].v.utxo_set

\* the transactions of the blocks on the path from the genesis block to b, in order
RECURSIVE PathTxs(_)
PathTxs(b) == IF b.priorBlockHash = None THEN b.contents ELSE PathTxs(Parent(b)) \o b.contents

\* the inputs on a path, each as <<position of its transaction, position in
\* the transaction, output reference>>
PathInputs(txs) ==
    UNION {{<<p, i, <<txs[p].inputs[i].txHash, txs[p].inputs[i].txIdx>>>> :
               i \in 1..Len(txs[p].inputs)} : p \in 1..Len(txs)}

\* the output references the p-th transaction of a path creates
Created(txs, p) == {<<TxHash[txs[p]], j>> : j \in 0..(Len(txs[p].outputs) - 1)}

\* C20: on the path from the genesis block to an accepted block no two
\* inputs refer to the same output, every input refers to an output of an
\* earlier transaction of the path, and the block's snapshot holds the
\* outputs created on the path that no input of the path refers to.
C20_NoDoubleSpend ==
    \A n \in 1..Len(blocks) :
        LET txs == PathTxs(blocks[n].v)
            ins == PathInputs(txs)
        IN /\ \A a, b \in ins : a[3] = b[3] => a = b
           /\ \A a \in ins : \E q \in 1..(a[1] - 1) : a[3] \in Created(txs, q)
           /\ DOMAIN blocks[n].v.utxo_set =
                 UNION {Created(txs, p) : p \in 1..Len(txs)} \ {a[3] : a \in ins}

====
